---- MODULE Spec2Model ----
(***************************************************************************)
(* Model of the AFL++ custom-mutator bridge (aflpp_custom_mutator):        *)
(* the FFIContext handle life cycle, the afl_custom_*_ wrappers, the       *)
(* FallibleCustomMutator adapter and the example reversal mutator.         *)
(*                                                                         *)
(* One action is one call of an exported entry point by the host.  A panic *)
(* inside a wrapper unwinds into an extern "C" frame, which ends the       *)
(* process: it is modelled as proc = "aborted", after which nothing runs.  *)
(* The host obeys the handle contract (it passes NULL or a handle that     *)
(* init returned and deinit has not consumed); every other pointer may be  *)
(* NULL or valid.                                                          *)
(***************************************************************************)
EXTENDS Integers, Sequences, FiniteSets, TLC

\* ------------------------------------------------------------------ bounds
MaxLen == 3      \* longest host buffer
MaxLive == 2     \* heap cells available for FFIContext boxes
MaxInits == 2    \* init calls the host makes in one run

\* ---------------------------------------------------------------- pointers
\* A pointer is <<region, index>>; the null pointer is its own region.
Null == <<"null", 0>>
Uninit == <<"uninit", 0>>          \* content of the out slot before any write
AflPtr == <<"afl_state", 0>>
BufPtr == <<"buf", 0>>
OutBufPtr == <<"out_buf", 0>>
AddBufPtr == <<"add_buf", 0>>
NewPathPtr == <<"filename_new_queue", 0>>
OrigPathPtr == <<"filename_orig_queue", 0>>
FilenamePtr == <<"filename", 0>>
MutatorBufPtr == <<"mutator_buf", 0>>   \* a buffer the mutator owns
MutatorStrPtr == <<"mutator_str", 0>>   \* a CStr the mutator owns

Handles == {<<"ctx", i>> : i \in 1..MaxLive}

\* The host's buffers: one of every length up to MaxLen, the bytes 1, 2, 3, ..
Bufs == {[i \in 1..n |-> i] : n \in 0..MaxLen}
LongBuf == [i \in 1..MaxLen |-> i]
\* What the host passes for add_buf and add_buf_size.
AddArgs == {<<Null, 0>>} \cup {<<AddBufPtr, n>> : n \in 0..MaxLen}
\* the memory behind add_buf: MaxLen bytes the host owns
AddMem == [i \in 1..MaxLen |-> 1]
Seeds == {42}

\* ------------------------------------------------------- the mutator types
MutatorTypes == {"ExampleMutator", "CustomMutator", "FallibleCustomMutator"}
States == {"s0", "s1"}             \* the fields of a mutator, abstracted
Errs == {"e1", "e2"}               \* values of FallibleCustomMutator::TErr
NoInst == [id |-> 0, st |-> "none"]

RECURSIVE Reverse(_)
Reverse(s) == IF s = <<>> THEN <<>> ELSE Reverse(Tail(s)) \o <<Head(s)>>

\* FuzzResult: InPlace | NewBuffer(&[u8]) | Fail
FuzzResultTags == {"InPlace", "NewBuffer", "Fail"}
FuzzResult(tag, b) == [tag |-> tag, b |-> IF tag = "NewBuffer" THEN b ELSE <<>>]

\* What the user's code does in one call of one of its methods: whether it
\* returns Ok or Err(err) (fallible mutators only), whether handle_err
\* panics (hp), the state it leaves, and the value it returns.
DefaultChoice ==
    [ok |-> TRUE, err |-> "none", hp |-> TRUE, st |-> "s0", tag |-> "InPlace",
     nb |-> <<>>, n |-> 1, b |-> TRUE, s |-> Null]

ErrChoices == {[DefaultChoice EXCEPT !.ok = FALSE, !.err = e, !.hp = hp] :
                  e \in Errs, hp \in BOOLEAN}

OkChoices(op) ==
    CASE op = "init" -> {[DefaultChoice EXCEPT !.st = st] : st \in States}
      [] op = "fuzz" ->
            {[DefaultChoice EXCEPT !.st = st, !.tag = "InPlace"] : st \in States}
            \cup {[DefaultChoice EXCEPT !.st = st, !.tag = "NewBuffer", !.nb = nb] :
                 st \in States, nb \in {<<>>, <<2>>}}
            \cup {[DefaultChoice EXCEPT !.st = st, !.tag = "Fail"] : st \in States}
      [] op = "fuzz_count" ->
            {[DefaultChoice EXCEPT !.st = st, !.n = n] : st \in States, n \in 0..2}
      [] op = "queue_new_entry" ->
            {[DefaultChoice EXCEPT !.st = st] : st \in States}
      [] op = "queue_get" ->
            {[DefaultChoice EXCEPT !.st = st, !.b = b] : st \in States, b \in BOOLEAN}
      [] OTHER ->
            {[DefaultChoice EXCEPT !.st = st, !.s = s] :
                 st \in States, s \in {Null, MutatorStrPtr}}

UserChoices(M, op) ==
    CASE M = "ExampleMutator" -> {DefaultChoice}
      [] M = "CustomMutator" -> OkChoices(op)
      [] OTHER -> OkChoices(op) \cup ErrChoices

\* ------------------------------------------- fallible.rs: the adapter
\* match <fallible call> { Ok(r) => r,
\*                         Err(e) => { Self::handle_err(e);
\*                                     panic!("Error handler did not panic") } }
\* Mutant: the error handler is run twice.
Adapter_HandlerTwice(res, hp, dflt) ==
    IF res.ok
    THEN [term |-> FALSE, msg |-> "none", handled |-> <<>>, val |-> res.val, st |-> res.st]
    ELSE [term |-> TRUE,
          msg |-> IF hp THEN "handle_err panicked" ELSE "Error handler did not panic",
          handled |-> <<res.err, res.err>>, val |-> dflt, st |-> res.st]

\* Mutant: no panic follows a handler that returns.
Adapter_NoEscalation(res, hp, dflt) ==
    IF res.ok
    THEN [term |-> FALSE, msg |-> "none", handled |-> <<>>, val |-> res.val, st |-> res.st]
    ELSE [term |-> hp, msg |-> IF hp THEN "handle_err panicked" ELSE "none",
          handled |-> <<res.err>>, val |-> dflt, st |-> res.st]

\* Mutant: an Err is turned into a value instead of going to the handler.
Adapter_ErrAsValue(res, hp, dflt) ==
    [term |-> FALSE, msg |-> "none", handled |-> <<>>,
     val |-> IF res.ok THEN res.val ELSE dflt, st |-> res.st]

Adapter(res, hp, dflt) ==
    IF res.ok
    THEN [term |-> FALSE, msg |-> "none", handled |-> <<>>, val |-> res.val, st |-> res.st]
    ELSE [term |-> TRUE,
          msg |-> IF hp THEN "handle_err panicked" ELSE "Error handler did not panic",
          handled |-> <<res.err>>, val |-> dflt, st |-> res.st]

\* A call that cannot fail (a plain CustomMutator method).
Plain(val, st) == [term |-> FALSE, msg |-> "none", handled |-> <<>>, val |-> val, st |-> st]

\* What a fallible method returns: Ok(val) or Err(err).
Result(c, val) == [ok |-> c.ok, err |-> c.err, val |-> val, st |-> c.st]

\* ---------------------------------------- the CustomMutator trait, per type
\* Each operator is <M as CustomMutator>::method; st is the state of self
\* on entry.  ExampleMutator overrides init and fuzz and inherits the trait's
\* defaults; the other two types are arbitrary user code, driven by c.
M_init(M, c) ==
    CASE M = "ExampleMutator" -> Plain("init", "s0")
      [] M = "CustomMutator" -> Plain("init", c.st)
      [] OTHER -> Adapter(Result(c, "init"), c.hp, "init")

\* val is <<FuzzResult, the buffer as the call leaves it>>
M_fuzz(M, c, st, buffer, add_buff, max_size) ==
    LET user == <<FuzzResult(c.tag, c.nb), buffer>>
    IN CASE M = "ExampleMutator" -> Plain(<<FuzzResult("InPlace", <<>>), Reverse(buffer)>>, st)
         [] M = "CustomMutator" -> Plain(user, c.st)
         [] OTHER -> Adapter(Result(c, user), c.hp, <<FuzzResult("Fail", <<>>), buffer>>)

M_fuzz_count(M, c, st, buffer) ==
    CASE M = "ExampleMutator" -> Plain(1, st)
      [] M = "CustomMutator" -> Plain(c.n, c.st)
      [] OTHER -> Adapter(Result(c, c.n), c.hp, 0)

M_queue_new_entry(M, c, st, filename_new_queue, filename_orig_queue) ==
    CASE M = "ExampleMutator" -> Plain("unit", st)
      [] M = "CustomMutator" -> Plain("unit", c.st)
      [] OTHER -> Adapter(Result(c, "unit"), c.hp, "unit")

M_queue_get(M, c, st, filename) ==
    CASE M = "ExampleMutator" -> Plain(TRUE, st)
      [] M = "CustomMutator" -> Plain(c.b, c.st)
      [] OTHER -> Adapter(Result(c, c.b), c.hp, FALSE)

M_describe(M, c, st, max_description) ==
    CASE M = "ExampleMutator" -> Plain(Null, st)
      [] M = "CustomMutator" -> Plain(c.s, c.st)
      [] OTHER -> Adapter(Result(c, c.s), c.hp, Null)

M_introspection(M, c, st) ==
    CASE M = "ExampleMutator" -> Plain(Null, st)
      [] M = "CustomMutator" -> Plain(c.s, c.st)
      [] OTHER -> Adapter(Result(c, c.s), c.hp, Null)

\* ------------------------------------------------------------- the state
VARIABLES
    mutatorType,  \* the type export_mutator! was expanded with
    proc,         \* "running", or "aborted" once a panic reached an entry point
    heap,         \* heap cell -> the FFIContext boxed there (its mutator), or NoInst
    handles,      \* the handles the host holds: returned by init, not yet given to deinit
    inits,        \* init calls that returned a handle
    deinits,      \* deinit calls that returned
    dropLog,      \* the set of <<instance id, entry point, nth run>>, one for every run
                  \* of a mutator's destructor
    outSlot,      \* the content of the host's *out_buf
    last          \* the last entry-point call: its arguments, what the mutator saw, the result

vars == <<mutatorType, proc, heap, handles, inits, deinits, dropLog, outSlot, last>>

NoCall ==
    [op |-> "none", data |-> Null, c |-> DefaultChoice, aborted |-> FALSE, msg |-> "none",
     called |-> FALSE, handled |-> <<>>, pre |-> NoInst, seen |-> "none", left |-> "none",
     retNum |-> 0, retPtr |-> Null, returned |-> FALSE, outBefore |-> Uninit,
     nullArg |-> FALSE, bufBefore |-> <<>>, bufAfter |-> <<>>, tag |-> "none", nb |-> <<>>,
     add_buf |-> Null, add_buf_size |-> 0, addSeen |-> <<>>, orig |-> Null, origSeen |-> <<>>,
     heapBefore |-> [h \in Handles |-> NoInst], dropBefore |-> {}]

Init ==
    /\ mutatorType \in MutatorTypes
    /\ proc = "running"
    /\ heap = [h \in Handles |-> NoInst]
    /\ handles = {}
    /\ inits = 0
    /\ deinits = 0
    /\ dropLog = {}
    /\ outSlot = Uninit
    /\ last = NoCall

\* ------------------------------------------------------ lib.rs: FFIContext
\* FFIContext::from: assert!(!ptr.is_null()); the result borrows the box at ptr.
FFIContext_from(ptr) == IF ptr = Null THEN "assertion failed: !ptr.is_null()" ELSE "none"

\* Dropping Box<FFIContext<M>>: the mutator's destructor runs and the cell is freed.
Box_drop(hs, ptr, op) ==
    [heap |-> [hs.heap EXCEPT ![ptr] = NoInst],
     dropLog |-> hs.dropLog \cup
                   {<<hs.heap[ptr].id, op,
                      1 + Cardinality({d \in hs.dropLog : d[1] = hs.heap[ptr].id})>>}]

\* Mutant: the wrapper's view is a plain Box, dropped at the end of the call.
ManuallyDrop_drop_Frees(hs, ptr, op) == Box_drop(hs, ptr, op)

\* The ManuallyDrop<Box<FFIContext>> of a wrapper goes out of scope: nothing is dropped.
ManuallyDrop_drop(hs, ptr, op) == hs

\* Mutant: deinit leaves the Box inside its ManuallyDrop.
ManuallyDrop_into_inner_Leaks(hs, ptr, op) == hs

\* ManuallyDrop::into_inner(..) as a statement: the Box is taken out and dropped.
ManuallyDrop_into_inner(hs, ptr, op) == Box_drop(hs, ptr, op)

\* The heap after a wrapper that called the mutator at ptr and returned.
AfterCall(ptr, st, op) ==
    ManuallyDrop_drop([heap |-> [heap EXCEPT ![ptr].st = st], dropLog |-> dropLog], ptr, op)

\* The call record every wrapper starts from.
Call(op, data) ==
    [NoCall EXCEPT !.op = op, !.data = data, !.outBefore = outSlot,
                   !.pre = IF data \in Handles THEN heap[data] ELSE NoInst]

\* A panic: the process ends; no destructor of the context runs.
Panic(rec, msg, called, handled) ==
    /\ proc' = "aborted"
    /\ last' = [rec EXCEPT !.aborted = TRUE, !.msg = msg, !.called = called,
                           !.handled = handled, !.heapBefore = heap,
                           !.dropBefore = dropLog]
    /\ UNCHANGED <<mutatorType, heap, handles, inits, deinits, dropLog, outSlot>>

\* The wrapper returns to the host; hs is the heap it leaves.
Return(rec, hs) ==
    /\ last' = [rec EXCEPT !.returned = TRUE, !.called = TRUE]
    /\ heap' = hs.heap
    /\ dropLog' = hs.dropLog
    /\ UNCHANGED <<mutatorType, proc, inits, deinits>>

\* ---------------------------------------------------- lib.rs: the wrappers
\* afl.expect("mutator func called with NULL afl"), then
\* FFIContext::<M>::new(afl, seed).into_ptr(): M::init, Box::new, Box::into_raw.
afl_custom_init_(afl, seed, c, cell) ==
    LET rec0 == [Call("init", Null) EXCEPT !.nullArg = (afl = Null)]
        rec == [rec0 EXCEPT !.c = c]
        r == M_init(mutatorType, c)
    IN IF afl = Null
       THEN Panic(rec0, "mutator func called with NULL afl", FALSE, <<>>)
       ELSE IF r.term
       THEN Panic(rec, r.msg, TRUE, r.handled)
       ELSE /\ heap' = [heap EXCEPT ![cell] = [id |-> inits + 1, st |-> r.st]]
            /\ handles' = handles \cup {cell}
            /\ inits' = inits + 1
            /\ last' = [rec EXCEPT !.returned = TRUE, !.called = TRUE, !.retPtr = cell,
                                   !.left = r.st]
            /\ UNCHANGED <<mutatorType, proc, deinits, dropLog, outSlot>>

\* Mutant: out_buf is not checked.
FuzzNullPanic_NoOutCheck(buf, out_buf) ==
    IF buf = Null THEN "null buf passed to afl_custom_fuzz" ELSE "none"

\* if buf.is_null() { panic!(..) }  if out_buf.is_null() { panic!(..) }
FuzzNullPanic(buf, out_buf) ==
    IF buf = Null THEN "null buf passed to afl_custom_fuzz"
    ELSE IF out_buf = Null THEN "null out_buf passed to afl_custom_fuzz"
    ELSE "none"

\* Mutant: the secondary view takes buf's memory size, not add_buf_size.
AddBuffSlice_IgnoresSize(add_buf, add_buf_size) ==
    IF add_buf = Null THEN <<>> ELSE <<AddMem>>

\* add_buff_slice: None for a null add_buf, else Some(add_buf_size bytes at add_buf);
\* an Option is a sequence of at most one element.
AddBuffSlice(add_buf, add_buf_size) ==
    IF add_buf = Null THEN <<>> ELSE <<SubSeq(AddMem, 1, add_buf_size)>>

\* Mutant: InPlace stores the pointer and returns 0.
EncodeFuzzResult_InPlaceLen0(res, buf, buff_slice) ==
    CASE res.tag = "InPlace" -> [out |-> buf, len |-> 0]
      [] res.tag = "NewBuffer" -> [out |-> MutatorBufPtr, len |-> Len(res.b)]
      [] OTHER -> [out |-> Null, len |-> 0]

\* Mutant: Fail returns 0 and leaves buf in the slot.
EncodeFuzzResult_FailKeepsPtr(res, buf, buff_slice) ==
    CASE res.tag = "InPlace" -> [out |-> buf, len |-> Len(buff_slice)]
      [] res.tag = "NewBuffer" -> [out |-> MutatorBufPtr, len |-> Len(res.b)]
      [] OTHER -> [out |-> buf, len |-> 0]

\* Mutant: an empty replacement buffer is reported as NULL.
EncodeFuzzResult_EmptyNewNull(res, buf, buff_slice) ==
    CASE res.tag = "InPlace" -> [out |-> buf, len |-> Len(buff_slice)]
      [] res.tag = "NewBuffer" ->
            [out |-> IF res.b = <<>> THEN Null ELSE MutatorBufPtr, len |-> Len(res.b)]
      [] OTHER -> [out |-> Null, len |-> 0]

\* The match on the FuzzResult: the pointer stored in *out_buf and the length returned.
EncodeFuzzResult(res, buf, buff_slice) ==
    CASE res.tag = "InPlace" -> [out |-> buf, len |-> Len(buff_slice)]
      [] res.tag = "NewBuffer" -> [out |-> MutatorBufPtr, len |-> Len(res.b)]
      [] OTHER -> [out |-> Null, len |-> 0]

\* mem is the buf_size bytes the host keeps at buf.
afl_custom_fuzz_(data, buf, mem, out_buf, add_buf, add_buf_size, max_size, c) ==
    LET rec0 == [Call("fuzz", data) EXCEPT
                    !.nullArg = (data = Null \/ buf = Null \/ out_buf = Null)]
        from == FFIContext_from(data)
        nulls == FuzzNullPanic(buf, out_buf)
    IN IF from # "none" THEN Panic(rec0, from, FALSE, <<>>)
       ELSE IF nulls # "none" THEN Panic(rec0, nulls, FALSE, <<>>)
       ELSE LET buff_slice == mem
                add_buff_slice == AddBuffSlice(add_buf, add_buf_size)
                st == heap[data].st
                r == M_fuzz(mutatorType, c, st, buff_slice, add_buff_slice, max_size)
                rec == [rec0 EXCEPT !.c = c, !.seen = st, !.bufBefore = mem, !.add_buf = add_buf,
                                    !.add_buf_size = IF add_buf = Null THEN 0 ELSE add_buf_size,
                                    !.addSeen = add_buff_slice]
                enc == EncodeFuzzResult(r.val[1], buf, r.val[2])
            IN IF r.term THEN Panic(rec, r.msg, TRUE, r.handled)
               ELSE /\ Return([rec EXCEPT !.left = r.st, !.tag = r.val[1].tag,
                                          !.nb = r.val[1].b, !.bufAfter = r.val[2],
                                          !.retNum = enc.len, !.retPtr = enc.out],
                              AfterCall(data, r.st, "fuzz"))
                    /\ outSlot' = enc.out
                    /\ UNCHANGED handles

afl_custom_fuzz_count_(data, buf, mem, c) ==
    LET rec0 == [Call("fuzz_count", data) EXCEPT !.nullArg = (data = Null \/ buf = Null)]
        from == FFIContext_from(data)
    IN IF from # "none" THEN Panic(rec0, from, FALSE, <<>>)
       ELSE IF buf = Null THEN Panic(rec0, "null buf passed to afl_custom_fuzz", FALSE, <<>>)
       ELSE LET st == heap[data].st
                r == M_fuzz_count(mutatorType, c, st, mem)
                rec == [rec0 EXCEPT !.c = c, !.seen = st, !.bufBefore = mem]
            IN IF r.term THEN Panic(rec, r.msg, TRUE, r.handled)
               ELSE /\ Return([rec EXCEPT !.left = r.st, !.retNum = r.val, !.bufAfter = mem],
                              AfterCall(data, r.st, "fuzz_count"))
                    /\ UNCHANGED <<handles, outSlot>>

\* filename_orig_queue: None for a null pointer, else Some(the CStr there).
OrigQueue(filename_orig_queue) ==
    IF filename_orig_queue # Null THEN <<filename_orig_queue>> ELSE <<>>

afl_custom_queue_new_entry_(data, filename_new_queue, filename_orig_queue, c) ==
    LET rec0 == [Call("queue_new_entry", data) EXCEPT
                    !.nullArg = (data = Null \/ filename_new_queue = Null)]
        from == FFIContext_from(data)
    IN IF from # "none" THEN Panic(rec0, from, FALSE, <<>>)
       ELSE IF filename_new_queue = Null
       THEN Panic(rec0, "received null filename_new_queue in afl_custom_queue_new_entry",
                  FALSE, <<>>)
       ELSE LET st == heap[data].st
                orig == OrigQueue(filename_orig_queue)
                r == M_queue_new_entry(mutatorType, c, st, filename_new_queue, orig)
                rec == [rec0 EXCEPT !.c = c, !.seen = st, !.orig = filename_orig_queue,
                                    !.origSeen = orig]
            IN IF r.term THEN Panic(rec, r.msg, TRUE, r.handled)
               ELSE /\ Return([rec EXCEPT !.left = r.st],
                              AfterCall(data, r.st, "queue_new_entry"))
                    /\ UNCHANGED <<handles, outSlot>>

\* ManuallyDrop::into_inner(FFIContext::<M>::from(data)); the Box is dropped.
afl_custom_deinit_(data) ==
    LET rec0 == [Call("deinit", data) EXCEPT !.nullArg = (data = Null)]
        from == FFIContext_from(data)
    IN IF from # "none" THEN Panic(rec0, from, FALSE, <<>>)
       ELSE /\ last' = [rec0 EXCEPT !.returned = TRUE, !.seen = heap[data].st]
            /\ LET hs == ManuallyDrop_into_inner([heap |-> heap, dropLog |-> dropLog],
                                                 data, "deinit")
               IN heap' = hs.heap /\ dropLog' = hs.dropLog
            /\ handles' = handles \ {data}
            /\ deinits' = deinits + 1
            /\ UNCHANGED <<mutatorType, proc, inits, outSlot>>

\* if let Some(res) = .. { res.as_ptr() } else { null() }; an Option<&CStr> is
\* modelled by the pointer itself, Null for None.
OptionAsPtr(res) == IF res # Null THEN res ELSE Null

afl_custom_introspection_(data, c) ==
    LET rec0 == [Call("introspection", data) EXCEPT !.nullArg = (data = Null)]
        from == FFIContext_from(data)
    IN IF from # "none" THEN Panic(rec0, from, FALSE, <<>>)
       ELSE LET st == heap[data].st
                r == M_introspection(mutatorType, c, st)
                rec == [rec0 EXCEPT !.c = c, !.seen = st]
            IN IF r.term THEN Panic(rec, r.msg, TRUE, r.handled)
               ELSE /\ Return([rec EXCEPT !.left = r.st, !.retPtr = OptionAsPtr(r.val)],
                              AfterCall(data, r.st, "introspection"))
                    /\ UNCHANGED <<handles, outSlot>>

afl_custom_describe_(data, max_description_len, c) ==
    LET rec0 == [Call("describe", data) EXCEPT !.nullArg = (data = Null)]
        from == FFIContext_from(data)
    IN IF from # "none" THEN Panic(rec0, from, FALSE, <<>>)
       ELSE LET st == heap[data].st
                r == M_describe(mutatorType, c, st, max_description_len)
                rec == [rec0 EXCEPT !.c = c, !.seen = st]
            IN IF r.term THEN Panic(rec, r.msg, TRUE, r.handled)
               ELSE /\ Return([rec EXCEPT !.left = r.st, !.retPtr = OptionAsPtr(r.val)],
                              AfterCall(data, r.st, "describe"))
                    /\ UNCHANGED <<handles, outSlot>>

\* bool as u8
BoolAsU8(b) == IF b THEN 1 ELSE 0

afl_custom_queue_get_(data, filename, c) ==
    LET rec0 == [Call("queue_get", data) EXCEPT
                    !.nullArg = (data = Null \/ filename = Null)]
        from == FFIContext_from(data)
    IN IF from # "none" THEN Panic(rec0, from, FALSE, <<>>)
       ELSE IF filename = Null THEN Panic(rec0, "assertion failed: !filename.is_null()",
                                          FALSE, <<>>)
       ELSE LET st == heap[data].st
                r == M_queue_get(mutatorType, c, st, filename)
                rec == [rec0 EXCEPT !.c = c, !.seen = st]
            IN IF r.term THEN Panic(rec, r.msg, TRUE, r.handled)
               ELSE /\ Return([rec EXCEPT !.left = r.st, !.retNum = BoolAsU8(r.val)],
                              AfterCall(data, r.st, "queue_get"))
                    /\ UNCHANGED <<handles, outSlot>>

\* ------------------------------------ export_mutator!: the host's calls
\* The host passes NULL or a handle it holds.  A call with a NULL among the
\* pointers its wrapper checks panics before it reads anything else, so the
\* other arguments of such a call are left at one value.  The valid calls of
\* fuzz and fuzz_count vary the buffer, the secondary buffer and the mutator's
\* answer one at a time.
HostHandles == handles \cup {Null}

\* Box::new: the allocator's choice of a free cell.
FreeCell == CHOOSE h \in Handles : heap[h] = NoInst /\ \A g \in Handles : heap[g] = NoInst => h[2] <= g[2]

afl_custom_init ==
    /\ proc = "running"
    /\ inits < MaxInits
    /\ \E h \in Handles : heap[h] = NoInst
    /\ \/ \E seed \in Seeds, c \in UserChoices(mutatorType, "init") :
             afl_custom_init_(AflPtr, seed, c, FreeCell)
       \/ \E seed \in Seeds : afl_custom_init_(Null, seed, DefaultChoice, FreeCell)

afl_custom_fuzz ==
    /\ proc = "running"
    /\ \/ \E data \in handles, mem \in Bufs, c \in UserChoices(mutatorType, "fuzz") :
             /\ c.ok /\ c.tag = "InPlace"
             /\ afl_custom_fuzz_(data, BufPtr, mem, OutBufPtr, Null, 0, 16, c)
       \/ \E data \in handles, mem \in {<<>>, LongBuf}, c \in UserChoices(mutatorType, "fuzz") :
             /\ ~(c.ok /\ c.tag = "InPlace")
             /\ afl_custom_fuzz_(data, BufPtr, mem, OutBufPtr, Null, 0, 16, c)
       \/ \E data \in handles, add \in AddArgs :
             afl_custom_fuzz_(data, BufPtr, LongBuf, OutBufPtr, add[1], add[2], 16,
                              DefaultChoice)
       \/ \E data \in HostHandles, buf \in {Null, BufPtr}, out_buf \in {Null, OutBufPtr} :
             /\ Null \in {data, buf, out_buf}
             /\ afl_custom_fuzz_(data, buf, <<>>, out_buf, Null, 0, 16, DefaultChoice)

afl_custom_fuzz_count ==
    /\ proc = "running"
    /\ \/ \E data \in handles, mem \in Bufs :
             afl_custom_fuzz_count_(data, BufPtr, mem, DefaultChoice)
       \/ \E data \in handles, c \in UserChoices(mutatorType, "fuzz_count") :
             afl_custom_fuzz_count_(data, BufPtr, LongBuf, c)
       \/ \E data \in HostHandles, buf \in {Null, BufPtr} :
             /\ Null \in {data, buf}
             /\ afl_custom_fuzz_count_(data, buf, <<>>, DefaultChoice)

afl_custom_queue_new_entry ==
    /\ proc = "running"
    /\ \/ \E data \in handles, orig \in {Null, OrigPathPtr},
             c \in UserChoices(mutatorType, "queue_new_entry") :
             afl_custom_queue_new_entry_(data, NewPathPtr, orig, c)
       \/ \E data \in HostHandles, new \in {Null, NewPathPtr}, orig \in {Null, OrigPathPtr} :
             /\ Null \in {data, new}
             /\ afl_custom_queue_new_entry_(data, new, orig, DefaultChoice)

afl_custom_queue_get ==
    /\ proc = "running"
    /\ \/ \E data \in handles, c \in UserChoices(mutatorType, "queue_get") :
             afl_custom_queue_get_(data, FilenamePtr, c)
       \/ \E data \in HostHandles, filename \in {Null, FilenamePtr} :
             /\ Null \in {data, filename}
             /\ afl_custom_queue_get_(data, filename, DefaultChoice)

afl_custom_introspection ==
    /\ proc = "running"
    /\ \E data \in HostHandles, c \in UserChoices(mutatorType, "introspection") :
          /\ data = Null => c = DefaultChoice
          /\ afl_custom_introspection_(data, c)

afl_custom_describe ==
    /\ proc = "running"
    /\ \E data \in HostHandles, max_description_len \in {16},
          c \in UserChoices(mutatorType, "describe") :
          /\ data = Null => c = DefaultChoice
          /\ afl_custom_describe_(data, max_description_len, c)

afl_custom_deinit ==
    /\ proc = "running"
    /\ \E data \in HostHandles : afl_custom_deinit_(data)

Next ==
    \/ afl_custom_init
    \/ afl_custom_fuzz
    \/ afl_custom_fuzz_count
    \/ afl_custom_queue_new_entry
    \/ afl_custom_queue_get
    \/ afl_custom_introspection
    \/ afl_custom_describe
    \/ afl_custom_deinit

Spec == Init /\ [][Next]_vars

\* ================================================================ claims
NonDeinitOps == {"fuzz", "fuzz_count", "queue_new_entry", "queue_get",
                 "introspection", "describe"}
LiveCells == {h \in Handles : heap[h] # NoInst}
Fallible == mutatorType = "FallibleCustomMutator"
\* The mutator's method ran and returned Err (fallible mutators only).
ReturnedErr == last.called /\ ~last.c.ok
\* The mutator's method ran and returned a value (Ok, on the fallible path).
ReturnedOk == last.called /\ last.c.ok

\* C1: state continuity.  After every non-deinit call with a handle, the
\* handle still names the instance it named before the call (same identity),
\* the mutator was given the state that instance held when the call began,
\* and the cell holds the state the call left; every handle the host holds
\* names a live instance, whether the last call returned or panicked.
C1_StateContinuity ==
    /\ \A h \in handles : heap[h] # NoInst
    /\ (last.op \in NonDeinitOps /\ last.called) =>
          /\ last.data \in handles
          /\ heap[last.data].id = last.pre.id
          /\ last.pre.id > 0
          /\ last.seen = last.pre.st
    /\ (last.op \in NonDeinitOps /\ last.returned) =>
          heap[last.data].st = last.left

\* A call saw state s1, which only an earlier call can have left, and left s0.
C1_Witness ==
    /\ last.op = "queue_get" /\ last.returned
    /\ last.seen = "s1" /\ last.left = "s0" /\ heap[last.data].st = "s0"

\* C2: exactly-once destruction.  The live instances number inits - deinits;
\* every destructor run was made by deinit and is the first of its instance;
\* every instance created is either live or destroyed, never both.
C2_ExactlyOnceDestruction ==
    /\ Cardinality(LiveCells) = inits - deinits
    /\ Cardinality(dropLog) = deinits
    /\ \A d \in dropLog : d[2] = "deinit" /\ d[3] = 1
    /\ \A i \in 1..inits :
          (\E h \in Handles : heap[h].id = i) <=> ~(\E d \in dropLog : d[1] = i)

\* Two instances were created, one was destroyed by deinit after other calls.
C2_Witness ==
    /\ inits = 2 /\ deinits = 1 /\ last.op = "fuzz" /\ last.returned
    /\ Cardinality(LiveCells) = 1

\* C3: in-place encoding.  A fuzz call that returns with the InPlace outcome
\* leaves buf's address in the out slot and returns buf_size; with the
\* example mutator the outcome is InPlace and the buffer is reversed.
C3_InPlaceEncoding ==
    (last.op = "fuzz" /\ last.called) =>
       /\ (last.c.ok /\ last.c.tag = "InPlace" /\ mutatorType # "ExampleMutator") =>
             /\ last.returned
             /\ outSlot = BufPtr
             /\ last.retNum = Len(last.bufBefore)
       /\ mutatorType = "ExampleMutator" =>
             /\ last.returned /\ last.tag = "InPlace"
             /\ outSlot = BufPtr
             /\ last.retNum = Len(last.bufBefore)
             /\ Len(last.bufAfter) = Len(last.bufBefore)
             /\ \A i \in 1..Len(last.bufBefore) :
                   last.bufAfter[i] = last.bufBefore[Len(last.bufBefore) + 1 - i]

\* The scenario of the specification: [1,2,3] becomes [3,2,1], length 3.
C3_Witness ==
    /\ mutatorType = "ExampleMutator" /\ last.op = "fuzz" /\ last.returned
    /\ last.bufBefore = <<1, 2, 3>> /\ last.bufAfter = <<3, 2, 1>>
    /\ last.retNum = 3 /\ outSlot = BufPtr /\ last.add_buf = Null

\* C4: failure encoding.  A fuzz call whose mutate returns Fail stores NULL in
\* the out slot, returns 0, returns normally, and leaves the instance alive
\* behind the same handle with the process running.
C4_FailureEncoding ==
    (last.op = "fuzz" /\ ReturnedOk /\ last.c.tag = "Fail") =>
       /\ last.returned /\ ~last.aborted /\ proc = "running"
       /\ last.tag = "Fail"
       /\ outSlot = Null /\ last.retPtr = Null /\ last.retNum = 0
       /\ last.data \in handles /\ heap[last.data].id = last.pre.id
       /\ last.pre.id > 0

C4_Witness ==
    /\ last.op = "fuzz" /\ last.returned /\ last.tag = "Fail"
    /\ mutatorType = "CustomMutator" /\ last.bufBefore # <<>>
    /\ outSlot = Null /\ last.outBefore = BufPtr

\* C5 as stated: a returned length of 0 means the outcome was Fail and the
\* slot holds NULL.
C5_ZeroLengthMeansFailure ==
    (last.op = "fuzz" /\ last.returned /\ last.retNum = 0) =>
       (last.tag = "Fail" /\ outSlot = Null)

\* C5 amended: the slot holds NULL exactly when the outcome was Fail, and the
\* returned length is 0 exactly for Fail, an InPlace outcome on an empty
\* buffer, or an empty replacement buffer.
C5_NullMeansFailure ==
    (last.op = "fuzz" /\ last.returned) =>
       /\ (outSlot = Null) <=> (last.c.tag = "Fail")
       /\ (last.retNum = 0) <=>
             \/ last.c.tag = "Fail"
             \/ last.c.tag = "InPlace" /\ last.bufBefore = <<>>
             \/ last.c.tag = "NewBuffer" /\ last.c.nb = <<>>

\* An empty replacement buffer: length 0 with a pointer that is not NULL.
C5_Witness ==
    /\ last.op = "fuzz" /\ last.returned /\ last.retNum = 0
    /\ last.tag = "NewBuffer" /\ outSlot = MutatorBufPtr

\* C6: fallible-path termination.  When a method of a fallible mutator
\* returns Err(e), handle_err has run exactly once, with e, the process has
\* ended and the entry point has returned nothing (init: no handle, no
\* instance); when it returns Ok(v), handle_err has not run and v is what
\* the wrapper encodes.
C6_FalliblePathTermination ==
    /\ ReturnedErr =>
          /\ last.handled = <<last.c.err>>
          /\ last.aborted /\ proc = "aborted" /\ ~last.returned
          /\ last.retPtr = Null /\ last.retNum = 0
          /\ outSlot = last.outBefore
          /\ heap = last.heapBefore
    /\ (Fallible /\ ReturnedOk) =>
          /\ last.handled = <<>> /\ last.returned /\ ~last.aborted
          /\ last.op = "init" => heap[last.retPtr].st = last.c.st
          /\ last.op = "fuzz" => (last.tag = last.c.tag /\ last.nb = FuzzResult(last.c.tag, last.c.nb).b)
          /\ last.op = "fuzz_count" => last.retNum = last.c.n
          /\ last.op = "queue_get" => (last.retNum = 1) = last.c.b
          /\ last.op \in {"describe", "introspection"} => last.retPtr = last.c.s

C6_Witness ==
    /\ Fallible /\ last.op = "queue_get" /\ ReturnedErr
    /\ last.handled = <<"e2">> /\ proc = "aborted"

\* C7: handler-return escalation.  When a fallible method returns Err and
\* handle_err returns normally, the adapter panics with "Error handler did
\* not panic": the call does not return, nothing is encoded into the out
\* slot, and the process has ended.
C7_HandlerReturnEscalation ==
    (ReturnedErr /\ ~last.c.hp) =>
       /\ last.aborted /\ last.msg = "Error handler did not panic"
       /\ ~last.returned /\ proc = "aborted"
       /\ outSlot = last.outBefore /\ last.tag = "none"

C7_Witness ==
    /\ Fallible /\ last.op = "fuzz" /\ ReturnedErr /\ ~last.c.hp
    /\ last.msg = "Error handler did not panic"

\* C8 as stated: an Err from the fallible mutate is surfaced as the
\* NULL / 0 sentinel and the fuzz entry point returns normally.
C8_ErrIsFastFail ==
    (Fallible /\ last.op = "fuzz" /\ ReturnedErr) =>
       /\ last.returned /\ proc = "running"
       /\ outSlot = Null /\ last.retNum = 0

\* C8 amended: the fallible mutate surfaces the sentinel and returns normally
\* when it returns Ok(FuzzResult::Fail); when it returns Err, handle_err runs
\* and the process ends without fuzz returning.
C8_OkFailIsFastFail ==
    (Fallible /\ last.op = "fuzz" /\ last.called) =>
       /\ (last.c.ok /\ last.c.tag = "Fail") =>
             /\ last.returned /\ proc = "running" /\ last.handled = <<>>
             /\ outSlot = Null /\ last.retNum = 0
       /\ ~last.c.ok =>
             /\ ~last.returned /\ proc = "aborted" /\ Len(last.handled) = 1

C8_Witness ==
    /\ Fallible /\ last.op = "fuzz" /\ ReturnedOk /\ last.c.tag = "Fail"
    /\ last.returned /\ outSlot = Null /\ proc = "running"

\* C9: required-pointer validation.  A call with NULL for a pointer its
\* entry point requires panics before the mutator's method is invoked:
\* nothing is returned, no instance is created, changed or destroyed, and
\* the out slot keeps its content.
C9_RequiredPointerValidation ==
    last.nullArg =>
       /\ last.aborted /\ proc = "aborted" /\ ~last.returned
       /\ ~last.called /\ last.handled = <<>>
       /\ heap = last.heapBefore /\ dropLog = last.dropBefore
       /\ outSlot = last.outBefore

\* fuzz with a NULL out_buf, after an earlier fuzz had filled the slot.
C9_Witness ==
    /\ last.nullArg /\ last.op = "fuzz" /\ last.data # Null
    /\ last.msg = "null out_buf passed to afl_custom_fuzz"
    /\ outSlot = BufPtr /\ proc = "aborted"

\* C10: optional null inputs.  A fuzz call with valid required pointers
\* invokes mutate, with None for a NULL add_buf and otherwise with the
\* first add_buf_size bytes at add_buf; a queue_new_entry call with a NULL
\* original path invokes the mutator with None, panics only if the mutator
\* fails, returns nothing, and with the default no-op leaves the instance
\* as it was.
C10_OptionalNullInputs ==
    /\ (last.op = "fuzz" /\ ~last.nullArg) =>
          /\ last.called
          /\ (last.c.ok => last.returned /\ ~last.aborted)
          /\ last.add_buf = Null => last.addSeen = <<>>
          /\ last.add_buf # Null =>
                /\ Len(last.addSeen) = 1
                /\ Len(last.addSeen[1]) = last.add_buf_size
                /\ \A i \in 1..last.add_buf_size : last.addSeen[1][i] = AddMem[i]
    /\ (last.op = "queue_new_entry" /\ ~last.nullArg) =>
          /\ last.called
          /\ (last.orig = Null) <=> (last.origSeen = <<>>)
          /\ last.c.ok =>
                /\ last.returned /\ ~last.aborted /\ proc = "running"
                /\ last.retNum = 0 /\ last.retPtr = Null
                /\ outSlot = last.outBefore
          /\ mutatorType = "ExampleMutator" => heap[last.data] = last.pre

C10_Witness ==
    /\ mutatorType = "ExampleMutator" /\ last.op = "queue_new_entry"
    /\ last.returned /\ last.orig = Null /\ last.origSeen = <<>>
    /\ heap[last.data] = last.pre /\ last.pre.id > 0

====
